---- MODULE Spec2Model ----
(***************************************************************************)
(* Resource detection of the Minecraft RCON tool                           *)
(* (src/rcon-tool/resource_detector.py) and the MCP server that holds its  *)
(* result (src/rcon-tool/rcon.py).                                         *)
(*                                                                         *)
(* Strings are sequences of tokens: "mc-cluster-1" is                      *)
(* <<"mc","-","cluster","-","1">>.  The tokens are cut finely enough that  *)
(* Python's `in`, startswith and endswith, and JMESPath's contains(), act  *)
(* on token sequences as they act on the characters of the names used.     *)
(* Every AWS CLI call either succeeds with a response or exits non-zero    *)
(* (subprocess.CalledProcessError); the responses of one run are fixed in  *)
(* the variable api, the process environment in the variable env.          *)
(***************************************************************************)
EXTENDS Integers, Sequences, FiniteSets, TLC

VARIABLES
    detection_mode,   \* ResourceDetector.detection_mode
    env,              \* os.environ: the per-kind override variables
    api,              \* what the AWS CLI answers, per kind
    pc,               \* position inside detect_all_resources
    cluster_name,     \* locals of detect_all_resources
    service_name,
    task_arn,
    container_name,
    ec2_instance_id,
    nlb_dns_name,
    config,           \* the ResourceConfig returned, PyNone before
    error,            \* the message of the exception raised, PyNone if none
    via,              \* per kind: the branch of _detect_* that returned
    calls,            \* per kind: the AWS CLI calls issued, in order
    resources,        \* MinecraftRCONServer.resources, empty before it is set
    commands,         \* the rcon commands the server has served
    reply,            \* what the last rcon command returned, PyNone before
    exec_env,         \* the environment the last command was run with
    match_name,       \* the arguments of a call of _matches_pattern
    match_pattern,
    match_result      \* what the call returned, "pending" before

vars == <<detection_mode, env, api, pc, cluster_name, service_name, task_arn,
          container_name, ec2_instance_id, nlb_dns_name, config, error,
          via, calls, resources, commands, reply, exec_env, match_name,
          match_pattern, match_result>>

----------------------------------------------------------------------------
(* Bounds of the model *)

\* longest listing an API call returns
MaxList == 2
\* a naming search issues one listing call per pattern; the call that fails
\* is one of the first MaxFailAt (0: none fails)
MaxFailAt == 1
\* rcon commands a run of the server serves
MaxCommands == 2
\* tokens in a candidate name, and in a pattern between its wildcards,
\* handed to _matches_pattern
MaxNameLen == 3
MaxStemLen == 2

----------------------------------------------------------------------------
(* Python values and string helpers *)

\* Python's None (no string equals it)
PyNone == <<"<None>">>
\* what `--output text` prints for a null query result
TextNone == <<"None">>

\* truth value of an Optional[str] or of a list
Truthy(x) == x # PyNone /\ x # <<>>

\* os.getenv(key)
Getenv(key) == env[key]

\* `p in s` of Python strings, contains(s, p) of JMESPath
Contains(s, p) ==
    \E i \in 0..(Len(s) - Len(p)) : SubSeq(s, i + 1, i + Len(p)) = p

\* s.startswith(p), s.endswith(p)
StartsWith(s, p) == Len(p) <= Len(s) /\ SubSeq(s, 1, Len(p)) = p
EndsWith(s, p) == Len(p) <= Len(s) /\ SubSeq(s, Len(s) - Len(p) + 1, Len(s)) = p

\* s.split("/")[-1]
RECURSIVE SplitLast(_)
SplitLast(s) ==
    IF \E i \in 1..Len(s) : s[i] = "/"
    THEN SplitLast(Tail(s))
    ELSE s

\* [arn.split("/")[-1] for arn in arns]
NamesOf(arns) == [i \in 1..Len(arns) |-> SplitLast(arns[i])]

\* [y for x in s for y in x]
RECURSIVE Flatten(_)
Flatten(s) == IF s = <<>> THEN <<>> ELSE Head(s) \o Flatten(Tail(s))

ToSet(s) == {s[i] : i \in 1..Len(s)}

\* the characters of a string, as Python iterates it
Chars(s) == [i \in 1..Len(s) |-> <<s[i]>>]

----------------------------------------------------------------------------
(* Configuration of the detector *)

Modes == {"auto", "env", "tags", "naming"}

project_name == <<"mc">>
environment == <<"dev">>

Kinds == {"Cluster", "Service", "Task", "Container", "Instance", "LoadBalancer"}

\* a variant that lets the tag searches run in env mode too
TagsEnabled_InEnvMode(mode) == mode \in {"auto", "tags", "env"}

\* the strategy families a detection mode lets run (the two mode tests of
\* every _detect_* method)
TagsEnabled(mode) == mode \in {"auto", "tags"}
NamingEnabled(mode) == mode \in {"auto", "naming"}

\* self.common_tags is built but never read; the tag searches of ECS test
\* the Project tag themselves
ProjectTagFound(tags) ==
    /\ tags # {}
    /\ \E t \in tags : t.key = "Project" /\ t.value = project_name

\* one AWS CLI call, as the log keeps it: who issued it, the operation,
\* and the identifiers passed to it
Call(site, op, args) == [site |-> site, op |-> op, args |-> args]

\* a variant that tests the wrong end of the name
MatchesPattern_SwappedEnds(name, pattern) ==
    IF ~Contains(pattern, <<"*">>) THEN Contains(name, pattern)
    ELSE IF Head(pattern) = "*" /\ pattern[Len(pattern)] = "*"
         THEN Contains(name, SubSeq(pattern, 2, Len(pattern) - 1))
    ELSE IF Head(pattern) = "*" THEN StartsWith(name, Tail(pattern))
    ELSE IF pattern[Len(pattern)] = "*"
         THEN EndsWith(name, SubSeq(pattern, 1, Len(pattern) - 1))
    ELSE FALSE

\* name matching with "*" at either end of the pattern
MatchesPattern(name, pattern) ==
    IF ~Contains(pattern, <<"*">>) THEN Contains(name, pattern)
    ELSE IF Head(pattern) = "*" /\ pattern[Len(pattern)] = "*"
         THEN Contains(name, SubSeq(pattern, 2, Len(pattern) - 1))
    ELSE IF Head(pattern) = "*" THEN EndsWith(name, Tail(pattern))
    ELSE IF pattern[Len(pattern)] = "*"
         THEN StartsWith(name, SubSeq(pattern, 1, Len(pattern) - 1))
    ELSE FALSE

----------------------------------------------------------------------------
(* ECS clusters *)

ClusterArn(name) == <<"arn:aws:ecs:", "cluster", "/">> \o name

\* `ecs list-clusters --output json`: a JSON object with one key
ListClustersKeys == << <<"cluster", "Arns">> >>
ListClustersArns(w) == [i \in 1..Len(w.names) |-> ClusterArn(w.names[i])]

ClusterNamingPatterns ==
    << project_name \o <<"-", "cluster">>,
       <<"minecraft", "-">> \o environment \o <<"-", "cluster">>,
       <<"minecraft", "-", "cluster">>,
       project_name \o <<"-", "cdk", "-", "cluster">>,
       <<"minecraft", "-", "cdk", "-", "cluster">> >>

MatchesClusterNamingPattern(name) ==
    \E i \in 1..Len(ClusterNamingPatterns) :
        Contains(name, ClusterNamingPatterns[i])

\* a variant whose loop ends at the first candidate whose tag fetch fails
SearchEcsClustersByTags_AbortsOnFailure(w) ==
    IF ~w.listOk THEN <<>>
    ELSE LET names == NamesOf(ListClustersArns(w))
             failing == {i \in 1..Len(names) : ~w.resp[names[i]].ok}
             reached == IF failing = {} THEN names
                        ELSE SubSeq(names, 1,
                                    (CHOOSE i \in failing :
                                        \A j \in failing : i <= j) - 1)
             Match(n) == \/ w.resp[n].ok /\ ProjectTagFound(w.resp[n].tags)
                         \/ MatchesClusterNamingPattern(n)
         IN  SelectSeq(reached, Match)

\* returns the matching cluster names, in listing order
SearchEcsClustersByTags(w) ==
    IF ~w.listOk THEN <<>>
    ELSE LET names == NamesOf(ListClustersArns(w))
             Match(n) == \/ w.resp[n].ok /\ ProjectTagFound(w.resp[n].tags)
                         \/ MatchesClusterNamingPattern(n)
         IN  SelectSeq(names, Match)

SearchEcsClustersByTagsCalls(w) ==
    <<Call("tags", "list-clusters", <<>>)>> \o
    (IF ~w.listOk THEN <<>>
     ELSE [i \in 1..Len(w.names) |->
              Call("tags", "describe-clusters", <<w.names[i]>>)])

ClusterSearchPatterns ==
    ClusterNamingPatterns \o
    << <<"*", "-", "cdk", "-", "cluster">>,
       <<"*", "-", "cluster">> >>

\* the loop over the patterns from pattern i on: the name found (or PyNone)
\* and the number of listing calls issued so far
RECURSIVE SearchEcsClustersByNamingFrom(_, _)
SearchEcsClustersByNamingFrom(w, i) ==
    IF i > Len(ClusterSearchPatterns) THEN [result |-> PyNone, ncalls |-> i - 1]
    ELSE IF w.namingFailAt = i THEN [result |-> PyNone, ncalls |-> i]
    ELSE LET pattern == ClusterSearchPatterns[i]
             wild == SelectSeq(NamesOf(ListClustersKeys),
                               LAMBDA n : MatchesPattern(n, pattern))
             lit == SelectSeq(ListClustersArns(w),
                              LAMBDA a : Contains(a, pattern))
         IN  IF Contains(pattern, <<"*">>)
             THEN IF wild # <<>> THEN [result |-> wild[1], ncalls |-> i]
                  ELSE SearchEcsClustersByNamingFrom(w, i + 1)
             ELSE IF lit # <<>>
                  THEN [result |-> SplitLast(lit[1]), ncalls |-> i]
                  ELSE SearchEcsClustersByNamingFrom(w, i + 1)

SearchEcsClustersByNaming(w) == SearchEcsClustersByNamingFrom(w, 1).result

SearchEcsClustersByNamingCalls(w) ==
    [i \in 1..SearchEcsClustersByNamingFrom(w, 1).ncalls |->
        Call("naming", "list-clusters", <<>>)]

\* what a _detect_* method does: the value returned (PyNone when it
\* raises), the branch that returned, the calls issued and the message of
\* the exception raised
Outcome(result, how, issued, raised) ==
    [result |-> result, via |-> how, calls |-> issued, error |-> raised]

ClusterNotFound ==
    <<"ECS ", "cluster", " not found for project '">> \o project_name \o
    <<"' in environment '">> \o environment \o <<"'">>

\* a variant that consults the override before the tag search
DetectEcsCluster_EnvFirst(mode, w) ==
    LET clusters == IF TagsEnabled(mode) THEN SearchEcsClustersByTags(w) ELSE <<>>
        c1 == IF TagsEnabled(mode) THEN SearchEcsClustersByTagsCalls(w) ELSE <<>>
        override == Getenv("CLUSTER_NAME")
        named == IF NamingEnabled(mode) THEN SearchEcsClustersByNaming(w) ELSE PyNone
        c2 == IF NamingEnabled(mode)
              THEN c1 \o SearchEcsClustersByNamingCalls(w) ELSE c1
    IN  IF Truthy(override)
        THEN Outcome(override, "env", <<>>, PyNone)
        ELSE IF clusters # <<>>
        THEN Outcome(clusters[1], "tags", c1, PyNone)
        ELSE IF Truthy(named)
        THEN Outcome(named, "naming", c2, PyNone)
        ELSE Outcome(PyNone, "raise", c2, ClusterNotFound)

\* a variant in which a failed listing of the tag search ends the lookup
DetectEcsCluster_ListingFailureRaises(mode, w) ==
    LET clusters == IF TagsEnabled(mode) THEN SearchEcsClustersByTags(w) ELSE <<>>
        c1 == IF TagsEnabled(mode) THEN SearchEcsClustersByTagsCalls(w) ELSE <<>>
        override == Getenv("CLUSTER_NAME")
        named == IF NamingEnabled(mode) THEN SearchEcsClustersByNaming(w) ELSE PyNone
        c2 == IF NamingEnabled(mode)
              THEN c1 \o SearchEcsClustersByNamingCalls(w) ELSE c1
    IN  IF TagsEnabled(mode) /\ ~w.listOk
        THEN Outcome(PyNone, "raise", c1, ClusterNotFound)
        ELSE IF clusters # <<>>
        THEN Outcome(clusters[1], "tags", c1, PyNone)
        ELSE IF Truthy(override)
        THEN Outcome(override, "env", c1, PyNone)
        ELSE IF Truthy(named)
        THEN Outcome(named, "naming", c2, PyNone)
        ELSE Outcome(PyNone, "raise", c2, ClusterNotFound)

DetectEcsCluster(mode, w) ==
    LET clusters == IF TagsEnabled(mode) THEN SearchEcsClustersByTags(w) ELSE <<>>
        c1 == IF TagsEnabled(mode) THEN SearchEcsClustersByTagsCalls(w) ELSE <<>>
        override == Getenv("CLUSTER_NAME")
        named == IF NamingEnabled(mode) THEN SearchEcsClustersByNaming(w) ELSE PyNone
        c2 == IF NamingEnabled(mode)
              THEN c1 \o SearchEcsClustersByNamingCalls(w) ELSE c1
    IN  IF clusters # <<>>
        THEN Outcome(clusters[1], "tags", c1, PyNone)
        ELSE IF Truthy(override)
        THEN Outcome(override, "env", c1, PyNone)
        ELSE IF Truthy(named)
        THEN Outcome(named, "naming", c2, PyNone)
        ELSE Outcome(PyNone, "raise", c2, ClusterNotFound)

----------------------------------------------------------------------------
(* ECS services *)

ServiceArn(cluster, name) ==
    <<"arn:aws:ecs:", "service", "/">> \o cluster \o <<"/">> \o name

\* `ecs list-services --cluster c --output json`: a JSON object with one key
ListServicesKeys == << <<"service", "Arns">> >>
ListServicesArns(w, cluster) ==
    [i \in 1..Len(w.names) |-> ServiceArn(cluster, w.names[i])]

ServiceNamingPatterns ==
    << project_name \o <<"-", "service">>,
       <<"minecraft", "-">> \o environment \o <<"-", "service">>,
       <<"minecraft", "-", "service">>,
       <<"ECS", "Minecraft", "Service">>,
       <<"Minecraft", "Service">> >>

MatchesServiceNamingPattern(name) ==
    \E i \in 1..Len(ServiceNamingPatterns) :
        Contains(name, ServiceNamingPatterns[i])

\* returns the matching service names, in listing order
SearchEcsServicesByTags(w, cluster) ==
    IF ~w.listOk THEN <<>>
    ELSE LET names == NamesOf(ListServicesArns(w, cluster))
             Match(n) == \/ w.resp[n].ok /\ ProjectTagFound(w.resp[n].tags)
                         \/ MatchesServiceNamingPattern(n)
         IN  SelectSeq(names, Match)

SearchEcsServicesByTagsCalls(w, cluster) ==
    <<Call("tags", "list-services", <<cluster>>)>> \o
    (IF ~w.listOk THEN <<>>
     ELSE [i \in 1..Len(w.names) |->
              Call("tags", "describe-services", <<cluster, w.names[i]>>)])

ServiceSearchPatterns ==
    << project_name \o <<"-", "service">>,
       <<"minecraft", "-">> \o environment \o <<"-", "service">>,
       <<"minecraft", "-", "service">>,
       <<"*", "ECS", "Minecraft", "Service", "*">>,
       <<"*", "Minecraft", "Service", "*">>,
       <<"*", "Service", "*">> >>

RECURSIVE SearchEcsServicesByNamingFrom(_, _, _)
SearchEcsServicesByNamingFrom(w, cluster, i) ==
    IF i > Len(ServiceSearchPatterns) THEN [result |-> PyNone, ncalls |-> i - 1]
    ELSE IF w.namingFailAt = i THEN [result |-> PyNone, ncalls |-> i]
    ELSE LET pattern == ServiceSearchPatterns[i]
             wild == SelectSeq(NamesOf(ListServicesKeys),
                               LAMBDA n : MatchesPattern(n, pattern))
             lit == SelectSeq(ListServicesArns(w, cluster),
                              LAMBDA a : Contains(a, pattern))
         IN  IF Contains(pattern, <<"*">>)
             THEN IF wild # <<>> THEN [result |-> wild[1], ncalls |-> i]
                  ELSE SearchEcsServicesByNamingFrom(w, cluster, i + 1)
             ELSE IF lit # <<>>
                  THEN [result |-> SplitLast(lit[1]), ncalls |-> i]
                  ELSE SearchEcsServicesByNamingFrom(w, cluster, i + 1)

SearchEcsServicesByNaming(w, cluster) ==
    SearchEcsServicesByNamingFrom(w, cluster, 1).result

SearchEcsServicesByNamingCalls(w, cluster) ==
    [i \in 1..SearchEcsServicesByNamingFrom(w, cluster, 1).ncalls |->
        Call("naming", "list-services", <<cluster>>)]

\* `--query serviceArns[0] --output text`, stripped
FirstServiceText(w, cluster) ==
    IF w.names = <<>> THEN TextNone ELSE ListServicesArns(w, cluster)[1]

ServiceNotFound(cluster) ==
    <<"ECS ", "service", " not found in ", "cluster", " '">> \o cluster \o <<"'">>

\* a variant without the last resort: like the cluster lookup, it raises
\* once tags, override and naming are exhausted
DetectEcsService_NoFallback(mode, w, cluster) ==
    LET services == IF TagsEnabled(mode)
                    THEN SearchEcsServicesByTags(w, cluster) ELSE <<>>
        c1 == IF TagsEnabled(mode)
              THEN SearchEcsServicesByTagsCalls(w, cluster) ELSE <<>>
        override == Getenv("SERVICE_NAME")
        named == IF NamingEnabled(mode)
                 THEN SearchEcsServicesByNaming(w, cluster) ELSE PyNone
        c2 == IF NamingEnabled(mode)
              THEN c1 \o SearchEcsServicesByNamingCalls(w, cluster) ELSE c1
    IN  IF services # <<>>
        THEN Outcome(services[1], "tags", c1, PyNone)
        ELSE IF Truthy(override)
        THEN Outcome(override, "env", c1, PyNone)
        ELSE IF Truthy(named)
        THEN Outcome(named, "naming", c2, PyNone)
        ELSE Outcome(PyNone, "raise", c2, ServiceNotFound(cluster))

DetectEcsService(mode, w, cluster) ==
    LET services == IF TagsEnabled(mode)
                    THEN SearchEcsServicesByTags(w, cluster) ELSE <<>>
        c1 == IF TagsEnabled(mode)
              THEN SearchEcsServicesByTagsCalls(w, cluster) ELSE <<>>
        override == Getenv("SERVICE_NAME")
        named == IF NamingEnabled(mode)
                 THEN SearchEcsServicesByNaming(w, cluster) ELSE PyNone
        c2 == IF NamingEnabled(mode)
              THEN c1 \o SearchEcsServicesByNamingCalls(w, cluster) ELSE c1
        c3 == c2 \o <<Call("fallback", "list-services", <<cluster>>)>>
        service_arn == FirstServiceText(w, cluster)
    IN  IF services # <<>>
        THEN Outcome(services[1], "tags", c1, PyNone)
        ELSE IF Truthy(override)
        THEN Outcome(override, "env", c1, PyNone)
        ELSE IF Truthy(named)
        THEN Outcome(named, "naming", c2, PyNone)
        ELSE IF w.fallbackOk /\ Truthy(service_arn) /\ service_arn # TextNone
        THEN Outcome(SplitLast(service_arn), "fallback", c3, PyNone)
        ELSE Outcome(PyNone, "raise", c3, ServiceNotFound(cluster))

----------------------------------------------------------------------------
(* Running task and container *)

\* `ecs list-tasks ... --query taskArns[0] --output text`, stripped
FirstTaskText(w) == IF w.taskArns = <<>> THEN TextNone ELSE w.taskArns[1]

NoRunningTasks(service) ==
    <<"No running ", "task", "s found for ", "service", " ">> \o service
FailedToListTasks == <<"Failed to list ", "task", "s: ", "stderr">>

\* a variant that takes the task from TASK_ARN when it is set
DetectTaskArn_OverrideFirst(w, cluster, service) ==
    LET c == <<Call("task", "list-tasks", <<cluster, service>>)>>
        first == FirstTaskText(w)
        override == Getenv("TASK_ARN")
    IN  IF Truthy(override) THEN Outcome(override, "env", <<>>, PyNone)
        ELSE IF ~w.ok THEN Outcome(PyNone, "raise", c, FailedToListTasks)
        ELSE IF Truthy(first) /\ first # TextNone
        THEN Outcome(first, "list", c, PyNone)
        ELSE Outcome(PyNone, "raise", c, NoRunningTasks(service))

DetectTaskArn(w, cluster, service) ==
    LET c == <<Call("task", "list-tasks", <<cluster, service>>)>>
        first == FirstTaskText(w)
    IN  IF ~w.ok THEN Outcome(PyNone, "raise", c, FailedToListTasks)
        ELSE IF Truthy(first) /\ first # TextNone
        THEN Outcome(first, "list", c, PyNone)
        ELSE Outcome(PyNone, "raise", c, NoRunningTasks(service))

\* `ecs describe-tasks ... --query tasks[0].containers[0].name --output text`
FirstContainerText(w) == IF w.containers = <<>> THEN TextNone ELSE w.containers[1]

NoContainerFound == <<"No ", "container", " found in ", "task">>
FailedToDescribeTask == <<"Failed to describe ", "task", ": ", "stderr">>

\* a variant that describes the task first and falls back to the override
DetectContainerName_DescribeFirst(w, cluster, task) ==
    LET override == Getenv("CONTAINER_NAME")
        c == <<Call("container", "describe-tasks", <<cluster, task>>)>>
        first == FirstContainerText(w)
    IN  IF w.ok /\ Truthy(first) THEN Outcome(first, "describe", c, PyNone)
        ELSE IF Truthy(override) THEN Outcome(override, "env", c, PyNone)
        ELSE IF ~w.ok THEN Outcome(PyNone, "raise", c, FailedToDescribeTask)
        ELSE Outcome(PyNone, "raise", c, NoContainerFound)

DetectContainerName(w, cluster, task) ==
    LET override == Getenv("CONTAINER_NAME")
        c == <<Call("container", "describe-tasks", <<cluster, task>>)>>
        first == FirstContainerText(w)
    IN  IF Truthy(override) THEN Outcome(override, "env", <<>>, PyNone)
        ELSE IF ~w.ok
        THEN Outcome(PyNone, "raise", c, FailedToDescribeTask)
        ELSE IF Truthy(first) THEN Outcome(first, "describe", c, PyNone)
        ELSE Outcome(PyNone, "raise", c, NoContainerFound)

----------------------------------------------------------------------------
(* Optional kinds: EC2 instance and NLB *)

\* JMESPath `Tags[?Key=='k' && Value=='v']`, as a truth value
HasTag(tags, k, v) == \E t \in tags : t.key = k /\ t.value = v

\* `Tags[?Key=='Project' && ...] && Tags[?Key=='Environment' && ...]`
HasCommonTags(tags) ==
    HasTag(tags, "Project", project_name) /\ HasTag(tags, "Environment", environment)

\* `Tags[?Key=='Name' && contains(Value, pattern)]`, as a truth value
NameTagContains(tags, pattern) ==
    \E t \in tags : t.key = "Name" /\ Contains(t.value, pattern)

\* the projection `.InstanceId`
InstanceIds(insts) == [i \in 1..Len(insts) |-> insts[i].id]

\* `Reservations[].Instances[?...].InstanceId`: one list per reservation
InstancesByTagsJson(w) ==
    [r \in 1..Len(w.reservations) |->
        InstanceIds(SelectSeq(w.reservations[r],
                              LAMBDA inst : HasCommonTags(inst.tags)))]

SearchEc2InstancesByTags(w) ==
    IF ~w.tagsOk THEN <<>> ELSE Flatten(InstancesByTagsJson(w))

InstanceNamingPatterns ==
    << project_name \o <<"-", "proxy">>,
       <<"minecraft", "-">> \o environment \o <<"-", "proxy">>,
       <<"minecraft", "-", "proxy">> >>

InstancesByNameJson(w, pattern) ==
    [r \in 1..Len(w.reservations) |->
        InstanceIds(SelectSeq(w.reservations[r],
                              LAMBDA inst : NameTagContains(inst.tags, pattern)))]

RECURSIVE SearchEc2InstancesByNamingFrom(_, _)
SearchEc2InstancesByNamingFrom(w, i) ==
    IF i > Len(InstanceNamingPatterns) THEN [result |-> PyNone, ncalls |-> i - 1]
    ELSE IF w.namingFailAt = i THEN [result |-> PyNone, ncalls |-> i]
    ELSE LET instances == InstancesByNameJson(w, InstanceNamingPatterns[i])
         IN  IF instances # <<>> /\ instances[1] # <<>>
             THEN [result |-> instances[1][1], ncalls |-> i]
             ELSE SearchEc2InstancesByNamingFrom(w, i + 1)

SearchEc2InstancesByNaming(w) == SearchEc2InstancesByNamingFrom(w, 1).result

SearchEc2InstancesByNamingCalls(w) ==
    [i \in 1..SearchEc2InstancesByNamingFrom(w, 1).ncalls |->
        Call("naming", "describe-instances", <<>>)]

FargateNoEc2 == <<"fargate-no-ec2">>

FailedToSearchInstances == <<"Failed to search EC2 instances: ", "stderr">>

\* a variant whose tag search lets the failure of describe-instances escape
DetectEc2Instance_Unguarded(mode, w) ==
    LET instances == IF TagsEnabled(mode) THEN SearchEc2InstancesByTags(w) ELSE <<>>
        c1 == IF TagsEnabled(mode)
              THEN <<Call("tags", "describe-instances", <<>>)>> ELSE <<>>
        override == Getenv("EC2_INSTANCE_ID")
        named == IF NamingEnabled(mode) THEN SearchEc2InstancesByNaming(w) ELSE PyNone
        c2 == IF NamingEnabled(mode)
              THEN c1 \o SearchEc2InstancesByNamingCalls(w) ELSE c1
    IN  IF TagsEnabled(mode) /\ ~w.tagsOk
        THEN Outcome(PyNone, "raise", c1, FailedToSearchInstances)
        ELSE IF instances # <<>>
        THEN Outcome(instances[1], "tags", c1, PyNone)
        ELSE IF Truthy(override)
        THEN Outcome(override, "env", c1, PyNone)
        ELSE IF Truthy(named)
        THEN Outcome(named, "naming", c2, PyNone)
        ELSE Outcome(FargateNoEc2, "sentinel", c2, PyNone)

DetectEc2Instance(mode, w) ==
    LET instances == IF TagsEnabled(mode) THEN SearchEc2InstancesByTags(w) ELSE <<>>
        c1 == IF TagsEnabled(mode)
              THEN <<Call("tags", "describe-instances", <<>>)>> ELSE <<>>
        override == Getenv("EC2_INSTANCE_ID")
        named == IF NamingEnabled(mode) THEN SearchEc2InstancesByNaming(w) ELSE PyNone
        c2 == IF NamingEnabled(mode)
              THEN c1 \o SearchEc2InstancesByNamingCalls(w) ELSE c1
    IN  IF instances # <<>>
        THEN Outcome(instances[1], "tags", c1, PyNone)
        ELSE IF Truthy(override)
        THEN Outcome(override, "env", c1, PyNone)
        ELSE IF Truthy(named)
        THEN Outcome(named, "naming", c2, PyNone)
        ELSE Outcome(FargateNoEc2, "sentinel", c2, PyNone)

\* the projection `.DNSName`
DnsNames(lbs) == [i \in 1..Len(lbs) |-> lbs[i].dns]

\* each string of the list as the list of its characters
CharLists(strs) == [i \in 1..Len(strs) |-> Chars(strs[i])]

\* `LoadBalancers[?Tags[...] && Tags[...]].DNSName`: a list of strings
NlbByTagsJson(w) ==
    DnsNames(SelectSeq(w.lbs, LAMBDA lb : HasCommonTags(lb.tags)))

\* the comprehension iterates each DNS name, a string, as a list
SearchNlbByTags(w) ==
    IF ~w.tagsOk THEN <<>> ELSE Flatten(CharLists(NlbByTagsJson(w)))

NlbNamingPatterns ==
    << project_name \o <<"-", "nlb">>,
       <<"minecraft", "-">> \o environment \o <<"-", "nlb">>,
       <<"minecraft", "-", "nlb">> >>

\* `LoadBalancers[?contains(LoadBalancerName, 'pattern')].DNSName`
NlbByNameJson(w, pattern) ==
    DnsNames(SelectSeq(w.lbs, LAMBDA lb : Contains(lb.name, pattern)))

RECURSIVE SearchNlbByNamingFrom(_, _)
SearchNlbByNamingFrom(w, i) ==
    IF i > Len(NlbNamingPatterns) THEN [result |-> PyNone, ncalls |-> i - 1]
    ELSE IF w.namingFailAt = i THEN [result |-> PyNone, ncalls |-> i]
    ELSE LET dns_names == NlbByNameJson(w, NlbNamingPatterns[i])
         IN  IF dns_names # <<>> THEN [result |-> dns_names[1], ncalls |-> i]
             ELSE SearchNlbByNamingFrom(w, i + 1)

SearchNlbByNaming(w) == SearchNlbByNamingFrom(w, 1).result

SearchNlbByNamingCalls(w) ==
    [i \in 1..SearchNlbByNamingFrom(w, 1).ncalls |->
        Call("naming", "describe-load-balancers", <<>>)]

NoNlbConfigured == <<"no-nlb-configured">>

DetectNlbDns(mode, w) ==
    LET dns_names == IF TagsEnabled(mode) THEN SearchNlbByTags(w) ELSE <<>>
        c1 == IF TagsEnabled(mode)
              THEN <<Call("tags", "describe-load-balancers", <<>>)>> ELSE <<>>
        override == Getenv("NLB_DNS_NAME")
        named == IF NamingEnabled(mode) THEN SearchNlbByNaming(w) ELSE PyNone
        c2 == IF NamingEnabled(mode) THEN c1 \o SearchNlbByNamingCalls(w) ELSE c1
    IN  IF dns_names # <<>>
        THEN Outcome(dns_names[1], "tags", c1, PyNone)
        ELSE IF Truthy(override)
        THEN Outcome(override, "env", c1, PyNone)
        ELSE IF Truthy(named)
        THEN Outcome(named, "naming", c2, PyNone)
        ELSE Outcome(NoNlbConfigured, "sentinel", c2, PyNone)

----------------------------------------------------------------------------
(* The inputs of one run: process environment and AWS responses *)

Tag(k, v) == [key |-> k, value |-> v]

\* tag sets a resource may carry
TagSets ==
    { {},
      {Tag("Project", project_name)},
      {Tag("Project", project_name), Tag("Environment", environment)},
      {Tag("Project", <<"foo">>), Tag("Environment", environment)} }

\* what describe-clusters / describe-services answers for one candidate:
\* its tags, or a non-zero exit
TagResponses ==
    {[ok |-> TRUE, tags |-> t] : t \in TagSets} \cup {[ok |-> FALSE, tags |-> {}]}

\* listings of at most MaxList distinct elements of pool
Listings(pool) ==
    {s \in UNION {[1..n -> pool] : n \in 0..MaxList} :
        \A i, j \in 1..Len(s) : i # j => s[i] # s[j]}

ClusterNames ==
    { <<"mc", "-", "cluster", "-", "1">>,
      <<"other", "-", "cluster">>,
      <<"cluster", "-", "foo">> }

ServiceNames ==
    { <<"mc", "-", "service">>,
      <<"App", "Service">>,
      <<"web">> }

\* the ECS answers about clusters (and, same shape, about services); when
\* the listing of the tag search fails no tag is ever read, and the world
\* carries none
EcsWorlds(pool) ==
    UNION { { [listOk |-> TRUE, names |-> ns, resp |-> r, namingFailAt |-> f] :
                r \in [ToSet(ns) -> TagResponses], f \in 0..MaxFailAt }
            \cup
            { [listOk |-> FALSE, names |-> ns,
               resp |-> [n \in ToSet(ns) |-> [ok |-> TRUE, tags |-> {}]],
               namingFailAt |-> f] : f \in 0..MaxFailAt }
            : ns \in Listings(pool) }

ClusterWorlds == EcsWorlds(ClusterNames)

ServiceWorlds ==
    { [listOk |-> w.listOk, names |-> w.names, resp |-> w.resp,
       namingFailAt |-> w.namingFailAt, fallbackOk |-> fb] :
        w \in EcsWorlds(ServiceNames), fb \in BOOLEAN }

TaskArns == { <<"arn:aws:ecs:", "task", "/", "t1">>,
              <<"arn:aws:ecs:", "task", "/", "t2">> }

TaskWorlds == {[ok |-> o, taskArns |-> l] : o \in BOOLEAN, l \in Listings(TaskArns)}

ContainerNames == { <<"minecraft">>, <<"sidecar">> }

ContainerWorlds ==
    {[ok |-> o, containers |-> l] : o \in BOOLEAN, l \in Listings(ContainerNames)}

\* tags of an EC2 instance or a load balancer: a Name and maybe the common tags
NamedTagSets(names) ==
    { {Tag("Name", n)} \cup t :
        n \in names,
        t \in { {},
                {Tag("Project", project_name)},
                {Tag("Project", project_name), Tag("Environment", environment)} } }

InstanceNameTags == { <<"mc", "-", "proxy">>, <<"web">> }

\* one instance per reservation, its id given by its place in the listing
ReservationLists ==
    UNION { { [r \in 1..n |-> <<[id |-> <<"i-", r>>, tags |-> ts[r]]>>] :
                ts \in [1..n -> NamedTagSets(InstanceNameTags)] }
            : n \in 0..MaxList }

InstanceWorlds ==
    {[tagsOk |-> o, reservations |-> rs, namingFailAt |-> f] :
        o \in BOOLEAN, rs \in ReservationLists, f \in 0..MaxFailAt}

LbNames == { <<"mc", "-", "nlb">>, <<"web", "-", "lb">> }

LbDns(name) == name \o <<"-", "1a2b", ".elb.amazonaws.com">>

LbTagSets ==
    { {},
      {Tag("Project", project_name)},
      {Tag("Project", project_name), Tag("Environment", environment)} }

LbLists ==
    UNION { { [i \in 1..Len(ns) |->
                  [name |-> ns[i], dns |-> LbDns(ns[i]), tags |-> ts[i]]] :
                ts \in [1..Len(ns) -> LbTagSets] }
            : ns \in Listings(LbNames) }

NlbWorlds ==
    {[tagsOk |-> o, lbs |-> l, namingFailAt |-> f] :
        o \in BOOLEAN, l \in LbLists, f \in 0..MaxFailAt}

Worlds(kind) ==
    CASE kind = "Cluster" -> ClusterWorlds
      [] kind = "Service" -> ServiceWorlds
      [] kind = "Task" -> TaskWorlds
      [] kind = "Container" -> ContainerWorlds
      [] kind = "Instance" -> InstanceWorlds
      [] kind = "LoadBalancer" -> NlbWorlds

EnvKey(kind) ==
    CASE kind = "Cluster" -> "CLUSTER_NAME"
      [] kind = "Service" -> "SERVICE_NAME"
      [] kind = "Task" -> "TASK_ARN"
      [] kind = "Container" -> "CONTAINER_NAME"
      [] kind = "Instance" -> "EC2_INSTANCE_ID"
      [] kind = "LoadBalancer" -> "NLB_DNS_NAME"

EnvKeys == {EnvKey(k) : k \in Kinds}

\* the value an operator pins a kind to
Pinned(kind) ==
    CASE kind = "Cluster" -> <<"my", "-", "cluster">>
      [] kind = "Service" -> <<"my", "-", "service">>
      [] kind = "Task" -> <<"arn:aws:ecs:", "task", "/", "t9">>
      [] kind = "Container" -> <<"custom">>
      [] kind = "Instance" -> <<"i-", "pinned">>
      [] kind = "LoadBalancer" -> <<"pinned", ".elb.amazonaws.com">>

\* a variable of the environment is unset, empty or set
EnvValues(kind) == {PyNone, <<>>, Pinned(kind)}

\* a deployment in which every kind is found by every strategy family
BaseWorld(kind) ==
    LET both == {Tag("Project", project_name), Tag("Environment", environment)}
        c == <<"mc", "-", "cluster", "-", "1">>
        s == <<"mc", "-", "service">>
    IN  CASE kind = "Cluster" ->
               [listOk |-> TRUE, names |-> <<c>>,
                resp |-> (c :> [ok |-> TRUE, tags |-> both]), namingFailAt |-> 0]
          [] kind = "Service" ->
               [listOk |-> TRUE, names |-> <<s>>,
                resp |-> (s :> [ok |-> TRUE, tags |-> both]), namingFailAt |-> 0,
                fallbackOk |-> TRUE]
          [] kind = "Task" ->
               [ok |-> TRUE, taskArns |-> << <<"arn:aws:ecs:", "task", "/", "t1">> >>]
          [] kind = "Container" ->
               [ok |-> TRUE, containers |-> << <<"minecraft">> >>]
          [] kind = "Instance" ->
               [tagsOk |-> TRUE, reservations |-> <<>>, namingFailAt |-> 0]
          [] kind = "LoadBalancer" ->
               [tagsOk |-> TRUE, lbs |-> <<>>, namingFailAt |-> 0]

\* the environment of the other kinds: every override pinned
BaseEnv == [k \in EnvKeys |-> Pinned(CHOOSE kind \in Kinds : EnvKey(kind) = k)]

----------------------------------------------------------------------------
(* detect_all_resources *)

NoCalls == [k \in Kinds |-> <<>>]

\* nothing has run yet
NotStarted ==
    /\ pc = "cluster"
    /\ cluster_name = PyNone
    /\ service_name = PyNone
    /\ task_arn = PyNone
    /\ container_name = PyNone
    /\ ec2_instance_id = PyNone
    /\ nlb_dns_name = PyNone
    /\ config = <<>>
    /\ error = PyNone
    /\ via = [k \in Kinds |-> "pending"]
    /\ calls = NoCalls
    /\ resources = <<>>
    /\ commands = 0
    /\ reply = PyNone
    /\ exec_env = <<>>
    /\ match_name = <<>>
    /\ match_pattern = <<>>
    /\ match_result = "idle"

\* The inputs are bounded to the runs in which one kind (one of focus)
\* meets arbitrary responses and an arbitrary override while the other
\* kinds meet the base deployment.
InitOf(focus) ==
    /\ detection_mode \in Modes
    /\ \E kind \in focus :
          /\ \E v \in EnvValues(kind) : env = [BaseEnv EXCEPT ![EnvKey(kind)] = v]
          /\ \E w \in Worlds(kind) :
                api = [k \in Kinds |-> IF k = kind THEN w ELSE BaseWorld(k)]
    /\ NotStarted

Init == InitOf(Kinds)

\* a variant that swallows the exception and goes on with the next kind
Record_Recovering(kind, o, next) ==
    /\ via' = [via EXCEPT ![kind] = o.via]
    /\ calls' = [calls EXCEPT ![kind] = o.calls]
    /\ error' = o.error
    /\ pc' = next
    /\ UNCHANGED <<detection_mode, env, api, config, resources, commands, reply,
                   exec_env,
                   match_name, match_pattern, match_result>>

\* bookkeeping of one _detect_* call: on an exception the run is over
Record(kind, o, next) ==
    /\ via' = [via EXCEPT ![kind] = o.via]
    /\ calls' = [calls EXCEPT ![kind] = o.calls]
    /\ error' = o.error
    /\ pc' = IF o.error = PyNone THEN next ELSE "failed"
    /\ UNCHANGED <<detection_mode, env, api, config, resources, commands, reply,
                   exec_env,
                   match_name, match_pattern, match_result>>

StepCluster ==
    /\ pc = "cluster"
    /\ LET o == DetectEcsCluster(detection_mode, api.Cluster)
       IN  cluster_name' = o.result /\ Record("Cluster", o, "service")
    /\ UNCHANGED <<service_name, task_arn, container_name, ec2_instance_id,
                   nlb_dns_name>>

\* a variant that looks the service up in the pinned cluster, not in the
\* resolved one
StepService_PinnedCluster ==
    /\ pc = "service"
    /\ LET o == DetectEcsService(detection_mode, api.Service, Getenv("CLUSTER_NAME"))
       IN  service_name' = o.result /\ Record("Service", o, "task")
    /\ UNCHANGED <<cluster_name, task_arn, container_name, ec2_instance_id,
                   nlb_dns_name>>

StepService ==
    /\ pc = "service"
    /\ LET o == DetectEcsService(detection_mode, api.Service, cluster_name)
       IN  service_name' = o.result /\ Record("Service", o, "task")
    /\ UNCHANGED <<cluster_name, task_arn, container_name, ec2_instance_id,
                   nlb_dns_name>>

\* a variant that waits for a task: a lookup that raises is tried again
StepTask_RetriesUntilFound ==
    /\ pc = "task"
    /\ LET o == DetectTaskArn(api.Task, cluster_name, service_name)
       IN  IF o.error = PyNone
           THEN /\ task_arn' = o.result
                /\ Record("Task", o, "container")
                /\ UNCHANGED <<cluster_name, service_name, container_name,
                               ec2_instance_id, nlb_dns_name>>
           ELSE UNCHANGED vars

StepTask ==
    /\ pc = "task"
    /\ LET o == DetectTaskArn(api.Task, cluster_name, service_name)
       IN  task_arn' = o.result /\ Record("Task", o, "container")
    /\ UNCHANGED <<cluster_name, service_name, container_name, ec2_instance_id,
                   nlb_dns_name>>

StepContainer ==
    /\ pc = "container"
    /\ LET o == DetectContainerName(api.Container, cluster_name, task_arn)
       IN  container_name' = o.result /\ Record("Container", o, "instance")
    /\ UNCHANGED <<cluster_name, service_name, task_arn, ec2_instance_id,
                   nlb_dns_name>>

\* a variant that treats the instance as a required kind: without one the
\* run is over
StepInstance_RequiresInstance ==
    /\ pc = "instance"
    /\ LET o == DetectEc2Instance(detection_mode, api.Instance)
       IN  /\ ec2_instance_id' = o.result
           /\ Record("Instance", o, IF o.via = "sentinel" THEN "failed" ELSE "nlb")
    /\ UNCHANGED <<cluster_name, service_name, task_arn, container_name,
                   nlb_dns_name>>

\* a variant that builds the configuration right after the instance
StepInstance_SkipsNlb ==
    /\ pc = "instance"
    /\ LET o == DetectEc2Instance(detection_mode, api.Instance)
       IN  ec2_instance_id' = o.result /\ Record("Instance", o, "config")
    /\ UNCHANGED <<cluster_name, service_name, task_arn, container_name,
                   nlb_dns_name>>

StepInstance ==
    /\ pc = "instance"
    /\ LET o == DetectEc2Instance(detection_mode, api.Instance)
       IN  ec2_instance_id' = o.result /\ Record("Instance", o, "nlb")
    /\ UNCHANGED <<cluster_name, service_name, task_arn, container_name,
                   nlb_dns_name>>

StepNlb ==
    /\ pc = "nlb"
    /\ LET o == DetectNlbDns(detection_mode, api.LoadBalancer)
       IN  nlb_dns_name' = o.result /\ Record("LoadBalancer", o, "config")
    /\ UNCHANGED <<cluster_name, service_name, task_arn, container_name,
                   ec2_instance_id>>

ResourceConfig ==
    [cluster_name |-> cluster_name,
     service_name |-> service_name,
     container_name |-> container_name,
     task_arn |-> task_arn,
     ec2_instance_id |-> ec2_instance_id,
     nlb_dns_name |-> nlb_dns_name,
     detection_mode |-> detection_mode,
     project_name |-> project_name,
     environment |-> environment]

ReturnConfig ==
    /\ pc = "config"
    /\ config' = <<ResourceConfig>>
    /\ pc' = "complete"
    /\ UNCHANGED <<detection_mode, env, api, cluster_name, service_name, task_arn,
                   container_name, ec2_instance_id, nlb_dns_name, error, via, calls,
                   resources, commands, reply, exec_env, match_name,
                   match_pattern,
                   match_result>>

Next ==
    \/ StepCluster
    \/ StepService
    \/ StepTask
    \/ StepContainer
    \/ StepInstance
    \/ StepNlb
    \/ ReturnConfig

\* one call of detect_all_resources
Spec == Init /\ [][Next]_vars

\* the runs in which Instance is the kind that meets arbitrary responses
\* and an arbitrary override
InstanceRuns == InitOf({"Instance"})

\* detect_all_resources is sequential code: every lookup returns or raises
\* once its AWS CLI calls have exited
FairSpec == InstanceRuns /\ [][Next]_vars /\ WF_vars(Next)

\* the longest listing of distinct elements of pool
Longest(pool) == IF Cardinality(pool) < MaxList THEN Cardinality(pool) ELSE MaxList

\* the number of candidates a kind's API answers with
Candidates(kind, w) ==
    CASE kind \in {"Cluster", "Service"} -> Len(w.names)
      [] kind = "Task" -> Len(w.taskArns)
      [] kind = "Container" -> Len(w.containers)
      [] kind = "Instance" -> Len(w.reservations)
      [] kind = "LoadBalancer" -> Len(w.lbs)

\* every call of the kind exits zero / exits non-zero
AllCallsOk(kind, w) ==
    CASE kind = "Cluster" -> w.listOk /\ w.namingFailAt = 0
      [] kind = "Service" -> w.listOk /\ w.namingFailAt = 0 /\ w.fallbackOk
      [] kind \in {"Task", "Container"} -> w.ok
      [] kind \in {"Instance", "LoadBalancer"} -> w.tagsOk /\ w.namingFailAt = 0

AllCallsFail(kind, w) ==
    CASE kind = "Cluster" -> ~w.listOk /\ w.namingFailAt = 1
      [] kind = "Service" -> ~w.listOk /\ w.namingFailAt = 1 /\ ~w.fallbackOk
      [] kind \in {"Task", "Container"} -> ~w.ok
      [] kind \in {"Instance", "LoadBalancer"} -> ~w.tagsOk /\ w.namingFailAt = 1

LongestOf(kind) ==
    CASE kind = "Cluster" -> Longest(ClusterNames)
      [] kind = "Service" -> Longest(ServiceNames)
      [] kind = "Task" -> Longest(TaskArns)
      [] kind = "Container" -> Longest(ContainerNames)
      [] kind = "Instance" -> MaxList
      [] kind = "LoadBalancer" -> Longest(LbNames)

\* four deployments per kind: the base one, one whose calls all fail, one
\* whose listings are empty, and one whose listings are as long as can be
EdgeWorlds ==
    [kind \in Kinds |->
        << BaseWorld(kind),
           CHOOSE w \in Worlds(kind) :
               AllCallsFail(kind, w) /\ Candidates(kind, w) = 0,
           CHOOSE w \in Worlds(kind) :
               AllCallsOk(kind, w) /\ Candidates(kind, w) = 0,
           CHOOSE w \in Worlds(kind) :
               AllCallsOk(kind, w) /\ Candidates(kind, w) = LongestOf(kind) >>]

\* no override is set
NoEnv == [k \in EnvKeys |-> PyNone]

\* the runs in which every kind meets one of its four deployments, with
\* every override set or none
EdgeRuns ==
    /\ detection_mode \in Modes
    /\ env \in {BaseEnv, NoEnv}
    /\ \E f \in [Kinds -> DOMAIN EdgeWorlds.Cluster] :
          api = [k \in Kinds |-> EdgeWorlds[k][f[k]]]
    /\ NotStarted

\* detect_all_resources is sequential code: every lookup returns or raises
\* once its AWS CLI calls have exited
TerminationSpec == EdgeRuns /\ [][Next]_vars /\ WF_vars(Next)

----------------------------------------------------------------------------
(* _matches_pattern on its own *)

SeqsUpTo(S, n) == UNION {[1..k -> S] : k \in 0..n}

NameTokens == {"foo", "-", "cluster"}

\* candidate names
MatchNames ==
    SeqsUpTo(NameTokens, MaxNameLen)
        \cup { <<"minecraft", "-", "cdk", "-", "cluster">> }

\* what a pattern holds besides its wildcards
MatchStems == SeqsUpTo(NameTokens, MaxStemLen)

\* literal patterns and patterns with "*" at either end or both
MatchPatterns ==
    UNION { { x, <<"*">> \o x, x \o <<"*">>, <<"*">> \o x \o <<"*">> } :
              x \in MatchStems }

MatchInit ==
    /\ detection_mode = "auto"
    /\ env = BaseEnv
    /\ api = [k \in Kinds |-> BaseWorld(k)]
    /\ pc = "cluster"
    /\ cluster_name = PyNone
    /\ service_name = PyNone
    /\ task_arn = PyNone
    /\ container_name = PyNone
    /\ ec2_instance_id = PyNone
    /\ nlb_dns_name = PyNone
    /\ config = <<>>
    /\ error = PyNone
    /\ via = [k \in Kinds |-> "pending"]
    /\ calls = NoCalls
    /\ resources = <<>>
    /\ commands = 0
    /\ reply = PyNone
    /\ exec_env = <<>>
    /\ match_name \in MatchNames
    /\ match_pattern \in MatchPatterns
    /\ match_result = "pending"

\* one call self._matches_pattern(name, pattern)
MatchesPatternCall ==
    /\ match_result = "pending"
    /\ match_result' =
          IF MatchesPattern(match_name, match_pattern) THEN "True" ELSE "False"
    /\ UNCHANGED <<detection_mode, env, api, pc, cluster_name, service_name,
                   task_arn, container_name, ec2_instance_id, nlb_dns_name,
                   config, error, via, calls, resources, commands, reply,
                   exec_env,
                   match_name, match_pattern>>

MatchNext == MatchesPatternCall

MatchSpec == MatchInit /\ [][MatchNext]_vars

----------------------------------------------------------------------------
(* MinecraftRCONServer (rcon.py) *)

\* the configuration the server builds itself when detection raised
FallbackConfig ==
    [cluster_name |-> Getenv("CLUSTER_NAME"),
     service_name |-> Getenv("SERVICE_NAME"),
     container_name |-> Getenv("CONTAINER_NAME"),
     task_arn |-> Getenv("TASK_ARN"),
     ec2_instance_id |-> <<>>,
     nlb_dns_name |-> <<>>,
     detection_mode |-> "",
     project_name |-> <<>>,
     environment |-> <<>>]

\* _initialize_resources, once detect_all_resources has returned or raised
InitializeResources ==
    /\ resources = <<>>
    /\ pc \in {"complete", "failed"}
    /\ resources' = IF pc = "complete" THEN config ELSE <<FallbackConfig>>
    /\ UNCHANGED <<detection_mode, env, api, pc, cluster_name, service_name,
                   task_arn, container_name, ec2_instance_id, nlb_dns_name,
                   config, error, via, calls, commands, reply, exec_env,
                   match_name,
                   match_pattern, match_result>>

\* the environment handed to scripts/ecs-exec.sh (AWS_REGION, AWS_PROFILE,
\* ENVIRONMENT and PROJECT_NAME are taken to be set)
ExecEnv ==
    [CLUSTER_NAME |-> resources[1].cluster_name,
     SERVICE_NAME |-> resources[1].service_name,
     CONTAINER_NAME |-> resources[1].container_name,
     TASK_ARN |-> resources[1].task_arn]

\* what a served command returns: subprocess.run refuses an environment
\* holding None (TypeError), else the script exits zero or non-zero
RconReplies ==
    IF \E k \in DOMAIN ExecEnv : ExecEnv[k] = PyNone
    THEN { <<"Unexpected error: ">> }
    ELSE { <<"output">>, <<"Error executing RCON command: ">> }

\* a variant that refreshes the task of the held configuration from the
\* environment before it runs the command
ExecuteRconCommand_Refreshing ==
    /\ resources # <<>>
    /\ commands < MaxCommands
    /\ commands' = commands + 1
    /\ exec_env' = <<ExecEnv>>
    /\ reply' \in RconReplies
    /\ resources' = <<[resources[1] EXCEPT !.task_arn = Getenv("TASK_ARN")]>>
    /\ UNCHANGED <<detection_mode, env, api, pc, cluster_name, service_name,
                   task_arn, container_name, ec2_instance_id, nlb_dns_name,
                   config, error, via, calls, match_name, match_pattern,
                   match_result>>

\* a variant without the two handlers of Exception: what subprocess.run
\* raises on an environment holding None leaves the tool, nothing is returned
ExecuteRconCommand_Propagating ==
    /\ resources # <<>>
    /\ commands < MaxCommands
    /\ commands' = commands + 1
    /\ exec_env' = <<ExecEnv>>
    /\ reply' \in IF \E k \in DOMAIN ExecEnv : ExecEnv[k] = PyNone
                  THEN {PyNone} ELSE RconReplies
    /\ UNCHANGED <<detection_mode, env, api, pc, cluster_name, service_name,
                   task_arn, container_name, ec2_instance_id, nlb_dns_name,
                   config, error, via, calls, resources, match_name,
                   match_pattern, match_result>>

\* the rcon tool: _execute_rcon_command, every exception turned into the
\* returned text
ExecuteRconCommand ==
    /\ resources # <<>>
    /\ commands < MaxCommands
    /\ commands' = commands + 1
    /\ exec_env' = <<ExecEnv>>
    /\ reply' \in RconReplies
    /\ UNCHANGED <<detection_mode, env, api, pc, cluster_name, service_name,
                   task_arn, container_name, ec2_instance_id, nlb_dns_name,
                   config, error, via, calls, resources, match_name,
                   match_pattern, match_result>>

\* the server from its construction on: detection, then the commands
ServerNext ==
    \/ Next
    \/ InitializeResources
    \/ ExecuteRconCommand

ServerSpec == Init /\ [][ServerNext]_vars

----------------------------------------------------------------------------
(* Vocabulary of the properties *)

RequiredKinds == {"Cluster", "Service", "Task", "Container"}
OptionalKinds == {"Instance", "LoadBalancer"}
CascadedKinds == {"Cluster", "Service", "Instance", "LoadBalancer"}

\* the _detect_* method of the kind has run / has raised
Done(kind) == via[kind] # "pending"
Raised(kind) == via[kind] = "raise"

\* the identifier detect_all_resources holds for the kind
Resolved(kind) ==
    CASE kind = "Cluster" -> cluster_name
      [] kind = "Service" -> service_name
      [] kind = "Task" -> task_arn
      [] kind = "Container" -> container_name
      [] kind = "Instance" -> ec2_instance_id
      [] kind = "LoadBalancer" -> nlb_dns_name

Override(kind) == env[EnvKey(kind)]
OverrideSet(kind) == Override(kind) # PyNone /\ Override(kind) # <<>>

\* what the tag search of the kind returns in this run
TagSearchResult(kind) ==
    CASE kind = "Cluster" -> SearchEcsClustersByTags(api.Cluster)
      [] kind = "Service" -> SearchEcsServicesByTags(api.Service, cluster_name)
      [] kind = "Instance" -> SearchEc2InstancesByTags(api.Instance)
      [] kind = "LoadBalancer" -> SearchNlbByTags(api.LoadBalancer)

\* what the naming search of the kind returns in this run
NamingSearchResult(kind) ==
    CASE kind = "Cluster" -> SearchEcsClustersByNaming(api.Cluster)
      [] kind = "Service" -> SearchEcsServicesByNaming(api.Service, cluster_name)
      [] kind = "Instance" -> SearchEc2InstancesByNaming(api.Instance)
      [] kind = "LoadBalancer" -> SearchNlbByNaming(api.LoadBalancer)

\* the tag search of the kind was run
TagSearchRan(kind) == \E i \in 1..Len(calls[kind]) : calls[kind][i].site = "tags"

\* a tag set carries Project = <project> and Environment = <environment>
BothTagsMatch(tags) ==
    /\ [key |-> "Project", value |-> project_name] \in tags
    /\ [key |-> "Environment", value |-> environment] \in tags

\* the ECS candidate has matching tags, and they can be read
CandidateTagged(kind, name) ==
    api[kind].resp[name].ok /\ BothTagsMatch(api[kind].resp[name].tags)

\* a detection mode admits a strategy family
ModeAdmits(family) == detection_mode = "auto" \/ detection_mode = family

\* the strategies of a required kind that have a match to offer in this run
Yielding(kind) ==
    CASE kind = "Cluster" ->
           {f \in {"tags"} : TagSearchResult(kind) # <<>>}
           \cup {f \in {"env"} : OverrideSet(kind)}
           \cup {f \in {"naming"} : NamingSearchResult(kind) # PyNone}
      [] kind = "Service" ->
           {f \in {"tags"} : TagSearchResult(kind) # <<>>}
           \cup {f \in {"env"} : OverrideSet(kind)}
           \cup {f \in {"naming"} : NamingSearchResult(kind) # PyNone}
           \cup {f \in {"first"} : api.Service.fallbackOk /\ api.Service.names # <<>>}
      [] kind = "Task" ->
           {f \in {"first"} : api.Task.ok /\ api.Task.taskArns # <<>>}
      [] kind = "Container" ->
           {f \in {"override"} : OverrideSet(kind)}
           \cup {f \in {"first"} : api.Container.ok /\ api.Container.containers # <<>>}

\* the strategies the detection mode permits (the kind-specific last
\* resorts and the container override belong to no family)
Permitted ==
    {f \in {"tags", "env", "naming"} : ModeAdmits(f)} \cup {"first", "override"}

\* the place of a kind in detect_all_resources
Rank(kind) ==
    CASE kind = "Cluster" -> 1
      [] kind = "Service" -> 2
      [] kind = "Task" -> 3
      [] kind = "Container" -> 4
      [] kind = "Instance" -> 5
      [] kind = "LoadBalancer" -> 6

KindWord(kind) ==
    CASE kind = "Cluster" -> <<"cluster">>
      [] kind = "Service" -> <<"service">>
      [] kind = "Task" -> <<"task">>
      [] kind = "Container" -> <<"container">>

----------------------------------------------------------------------------
(* Properties *)

\* C1: for every required kind, when no strategy the detection mode permits
\* has a match, resolution raises, and the message of the error names the
\* kind, the project and the environment.
C1_ExhaustedRequiredKindRaisesNamedError ==
    \A kind \in RequiredKinds :
        Done(kind) /\ Yielding(kind) \cap Permitted = {} =>
            /\ Raised(kind)
            /\ Contains(error, KindWord(kind))
            /\ Contains(error, project_name)
            /\ Contains(error, environment)

\* no tag match can be read, and no name matches (or the first listing of
\* the naming search fails)
InstanceExhausted ==
    LET w == api.Instance
        all == Flatten(w.reservations)
    IN  /\ ModeAdmits("tags") =>
              \/ ~w.tagsOk
              \/ \A i \in 1..Len(all) : ~BothTagsMatch(all[i].tags)
        /\ ~OverrideSet("Instance")
        /\ ModeAdmits("naming") =>
              \/ w.namingFailAt = 1
              \/ \A i \in 1..Len(all), j \in 1..Len(InstanceNamingPatterns) :
                    ~NameTagContains(all[i].tags, InstanceNamingPatterns[j])

NlbExhausted ==
    LET w == api.LoadBalancer
    IN  /\ ModeAdmits("tags") =>
              \/ ~w.tagsOk
              \/ \A i \in 1..Len(w.lbs) : ~BothTagsMatch(w.lbs[i].tags)
        /\ ~OverrideSet("LoadBalancer")
        /\ ModeAdmits("naming") =>
              \/ w.namingFailAt = 1
              \/ \A i \in 1..Len(w.lbs), j \in 1..Len(NlbNamingPatterns) :
                    ~Contains(w.lbs[i].name, NlbNamingPatterns[j])

\* C2: resolution of Instance and of LoadBalancer never raises, in any mode
\* and whatever calls fail; when every strategy is exhausted the result is
\* the sentinel "fargate-no-ec2", respectively "no-nlb-configured".
C2_OptionalKindsNeverRaise ==
    /\ \A kind \in OptionalKinds :
          /\ ~Raised(kind)
          /\ Done(kind) => error = PyNone /\ Resolved(kind) # PyNone
    /\ Done("Instance") /\ InstanceExhausted => ec2_instance_id = <<"fargate-no-ec2">>
    /\ Done("LoadBalancer") /\ NlbExhausted => nlb_dns_name = <<"no-nlb-configured">>

\* the instance searches both fail and the sentinel is returned
C2_Witness ==
    /\ Done("Instance")
    /\ detection_mode = "auto"
    /\ ~api.Instance.tagsOk
    /\ api.Instance.namingFailAt = 1
    /\ api.Instance.reservations # <<>>
    /\ ec2_instance_id = <<"fargate-no-ec2">>

\* C3: the tag search of clusters and of services returns a candidate only
\* if its tags contain both Project = <project> and Environment =
\* <environment>.
C3_TagSearchReturnsOnlyFullyTagged ==
    \A kind \in {"Cluster", "Service"} :
        TagSearchRan(kind) =>
            \A i \in 1..Len(TagSearchResult(kind)) :
                CandidateTagged(kind, TagSearchResult(kind)[i])

C5_OverrideBeatsNaming ==
    \A kind \in {"Cluster", "Service"} :
        /\ Done(kind)
        /\ OverrideSet(kind)
        /\ \A n \in ToSet(api[kind].names) : ~CandidateTagged(kind, n)
        => Resolved(kind) = Override(kind)

\* C6: in tags mode no identifier of Cluster, Service, Instance or
\* LoadBalancer comes from an override or a naming match; in naming mode
\* none comes from an override or a tag match.
C6_ModeRestrictsToOneFamily ==
    \A kind \in CascadedKinds :
        /\ detection_mode = "tags" => via[kind] \notin {"env", "naming"}
        /\ detection_mode = "naming" => via[kind] \notin {"env", "tags"}

\* C7: in env mode no tag search and no naming search is run for any kind;
\* Cluster, Instance and LoadBalancer issue no call at all and are decided
\* by their override alone: without it Cluster fails, Instance and
\* LoadBalancer yield their sentinel.
C7_EnvModeRunsNoSearch ==
    detection_mode = "env" =>
        /\ \A kind \in Kinds : \A i \in 1..Len(calls[kind]) :
              calls[kind][i].site \notin {"tags", "naming"}
        /\ \A kind \in {"Cluster", "Instance", "LoadBalancer"} :
              /\ calls[kind] = <<>>
              /\ Done(kind) /\ OverrideSet(kind) =>
                    via[kind] = "env" /\ Resolved(kind) = Override(kind)
        /\ Done("Cluster") /\ ~OverrideSet("Cluster") =>
              Raised("Cluster") /\ pc = "failed"
        /\ Done("Instance") /\ ~OverrideSet("Instance") =>
              ec2_instance_id = <<"fargate-no-ec2">>
        /\ Done("LoadBalancer") /\ ~OverrideSet("LoadBalancer") =>
              nlb_dns_name = <<"no-nlb-configured">>

\* env mode, no CLUSTER_NAME: a tagged cluster is listed, yet resolution
\* fails without a call
C7_Witness ==
    /\ detection_mode = "env"
    /\ ~OverrideSet("Cluster")
    /\ \E n \in ToSet(api.Cluster.names) : CandidateTagged("Cluster", n)
    /\ Raised("Cluster")
    /\ calls.Cluster = <<>>

\* C9: with CONTAINER_NAME set to a non-empty value, container resolution
\* returns that value, whatever describe-tasks would answer.
C9_ContainerOverrideWins ==
    Done("Container") /\ OverrideSet("Container") =>
        container_name = Override("Container") /\ ~Raised("Container")

\* the override is returned where describe-tasks would fail, name no
\* container, or name another one
C9_Witness ==
    /\ Done("Container")
    /\ OverrideSet("Container")
    /\ container_name = <<"custom">>
    /\ \/ ~api.Container.ok
       \/ api.Container.containers = <<>>
       \/ api.Container.containers[1] # <<"custom">>

\* C10: Cluster, Service, Task and Container are resolved in that order,
\* each after the one before it succeeded, and each lookup is given the
\* identifiers resolved before it.
C10_DependencyChain ==
    /\ Done("Service") => Done("Cluster") /\ ~Raised("Cluster") /\ cluster_name # PyNone
    /\ Done("Task") => Done("Service") /\ ~Raised("Service") /\ service_name # PyNone
    /\ Done("Container") => Done("Task") /\ ~Raised("Task") /\ task_arn # PyNone
    /\ \A i \in 1..Len(calls.Service) : calls.Service[i].args[1] = cluster_name
    /\ \A i \in 1..Len(calls.Task) :
          calls.Task[i].args = <<cluster_name, service_name>>
    /\ \A i \in 1..Len(calls.Container) :
          calls.Container[i].args = <<cluster_name, task_arn>>

\* a run that looked up service, task and container with resolved
\* identifiers that are not the pinned ones
C10_Witness ==
    /\ pc = "complete"
    /\ calls.Service # <<>>
    /\ calls.Task # <<>>
    /\ calls.Container # <<>>
    /\ cluster_name # Override("Cluster")
    /\ service_name # Override("Service")

\* C11: the pipeline is Complete only with Container resolved and with
\* Instance and LoadBalancer both attempted, each holding an identifier or
\* its sentinel; when the pipeline is Failed neither Instance nor
\* LoadBalancer has been attempted, so neither moved it there.
C11_CompleteNeedsContainerAndOptionalAttempts ==
    /\ pc \in {"config", "complete"} =>
          /\ Done("Container") /\ ~Raised("Container")
          /\ Truthy(container_name)
          /\ \A kind \in OptionalKinds :
                Done(kind) /\ ~Raised(kind) /\ Truthy(Resolved(kind))
    /\ pc = "complete" => config = <<ResourceConfig>>
    /\ pc = "failed" =>
          /\ \A kind \in OptionalKinds : ~Done(kind)
          /\ \E kind \in RequiredKinds : Raised(kind)

\* Complete with both optional kinds absent
C11_Witness ==
    /\ pc = "complete"
    /\ via.Instance = "sentinel"
    /\ ec2_instance_id = <<"fargate-no-ec2">>
    /\ Done("LoadBalancer")
    /\ Truthy(container_name)

\* C12: an exception of a required kind ends detect_all_resources: the
\* pipeline is Failed exactly when a required kind has raised, and then
\* every later kind is still unattempted and unresolved, the error is kept
\* and no configuration is built.
C12_FailurePropagates ==
    /\ pc = "failed" <=> \E kind \in RequiredKinds : Raised(kind)
    /\ pc = "failed" <=> error # PyNone
    /\ \A kind \in Kinds :
          Raised(kind) =>
              /\ Resolved(kind) = PyNone
              /\ \A later \in Kinds :
                    Rank(kind) < Rank(later) =>
                        ~Done(later) /\ Resolved(later) = PyNone
              /\ config = <<>>

\* the service lookup raised after the cluster was resolved
C12_Witness ==
    /\ pc = "failed"
    /\ Raised("Service")
    /\ cluster_name # PyNone
    /\ task_arn = PyNone
    /\ config = <<>>

\* C13: a ResourceConfig, once built, keeps all its fields: no step of the
\* detector changes the configuration it returned, and no step of the
\* server (however many rcon commands it serves) changes the one it holds.
C13_SnapshotNeverChanges ==
    [][ /\ config # <<>> => config' = config
        /\ resources # <<>> => resources' = resources ]_vars

\* the server has served all its commands on a detected configuration
C13_Witness ==
    /\ pc = "complete"
    /\ resources = config
    /\ commands = MaxCommands
    /\ reply = <<"output">>

\* C14: in every ResourceConfig the server holds, the instance field and
\* the load balancer field are each a non-empty identifier or the
\* sentinel of its kind; neither is ever empty.
C14_AbsenceIsTheSentinel ==
    resources # <<>> =>
        /\ Truthy(resources[1].ec2_instance_id)
        /\ Truthy(resources[1].nlb_dns_name)

\* the place of a candidate in the listing of its kind
PlaceOf(kind, n) == CHOOSE i \in 1..Len(api[kind].names) : api[kind].names[i] = n

\* the places of the listing whose candidate has matching tags
TaggedPlaces(kind) ==
    {i \in 1..Len(api[kind].names) : CandidateTagged(kind, api[kind].names[i])}

\* the least element of a non-empty set of numbers
Least(S) == CHOOSE i \in S : \A j \in S : i <= j

\* C15: the tag search of clusters returns its matches in listing order,
\* and whenever a listed cluster has matching tags (and the mode runs the
\* tag search) the resolved cluster is the first listed cluster whose
\* tags match.
C15_FirstTaggedClusterIsResolved ==
    /\ TagSearchRan("Cluster") =>
          LET found == TagSearchResult("Cluster")
          IN  \A i, j \in 1..Len(found) :
                  i < j => PlaceOf("Cluster", found[i]) < PlaceOf("Cluster", found[j])
    /\ Done("Cluster") /\ ModeAdmits("tags") /\ TaggedPlaces("Cluster") # {} =>
          cluster_name = api.Cluster.names[Least(TaggedPlaces("Cluster"))]

\* the patterns of the cluster naming search that hold no wildcard
LiteralClusterPatterns ==
    {ClusterSearchPatterns[j] : j \in {j \in 1..Len(ClusterSearchPatterns) :
                                       ~Contains(ClusterSearchPatterns[j], <<"*">>)}}

\* the name contains one of the literal patterns
HasLiteralClusterPattern(n) == \E p \in LiteralClusterPatterns : Contains(n, p)

\* C16: when no listed cluster has matching tags, no override is set, the
\* mode runs the naming search and its listing calls succeed, a listed
\* cluster whose name contains a literal pattern makes the resolved cluster
\* one whose name contains a literal pattern; and a cluster the naming
\* search selects always contains a literal pattern.
C16_LiteralPatternIsSubstringMatch ==
    /\ /\ Done("Cluster")
       /\ ModeAdmits("naming")
       /\ api.Cluster.namingFailAt = 0
       /\ TaggedPlaces("Cluster") = {}
       /\ ~OverrideSet("Cluster")
       /\ \E n \in ToSet(api.Cluster.names) : HasLiteralClusterPattern(n)
       => /\ cluster_name \in ToSet(api.Cluster.names)
          /\ HasLiteralClusterPattern(cluster_name)
    /\ via.Cluster = "naming" => HasLiteralClusterPattern(cluster_name)

\* the instance lookup has nothing to return: no tag match, no override,
\* no naming match (a search the mode does not run yields nothing)
NoInstanceFound ==
    /\ TagsEnabled(detection_mode) => TagSearchResult("Instance") = <<>>
    /\ ~OverrideSet("Instance")
    /\ NamingEnabled(detection_mode) => NamingSearchResult("Instance") = PyNone

\* C17: once the required chain has resolved, a run in which the instance
\* search yields no tag match, no override and no naming match goes on to
\* Complete and returns a configuration whose instance is the sentinel
\* "fargate-no-ec2".
C17_NoInstanceStillCompletes ==
    (pc = "instance" /\ NoInstanceFound)
        ~> /\ pc = "complete"
           /\ config # <<>>
           /\ ec2_instance_id = <<"fargate-no-ec2">>
           /\ config = <<ResourceConfig>>

\* instances are listed, none is found, and the run is Complete
C17_Witness ==
    /\ pc = "complete"
    /\ NoInstanceFound
    /\ detection_mode = "auto"
    /\ api.Instance.reservations # <<>>
    /\ config # <<>>
    /\ ec2_instance_id = <<"fargate-no-ec2">>

\* x occurs in n; n ends with x; n starts with x
OccursIn(x, n) == \E i, j \in 0..Len(n) : i <= j /\ SubSeq(n, i + 1, j) = x
IsSuffixOf(x, n) == \E k \in 0..Len(n) : n = SubSeq(n, 1, k) \o x
IsPrefixOf(x, n) == \E k \in 0..Len(n) : n = x \o SubSeq(n, k + 1, Len(n))

\* C18: _matches_pattern answers, for a pattern *X*, whether X occurs in
\* the name; for *X, whether the name ends with X; for X*, whether the
\* name starts with X.  So "*-cluster" matches "foo-cluster" and
\* "minecraft-cdk-cluster" and does not match "cluster-foo".
C18_WildcardForms ==
    match_result \in {"True", "False"} =>
        LET matched == match_result = "True"
            star == <<"*">>
        IN  /\ \A x \in MatchStems :
                  /\ match_pattern = star \o x \o star =>
                        (matched <=> OccursIn(x, match_name))
                  /\ match_pattern = star \o x =>
                        (matched <=> IsSuffixOf(x, match_name))
                  /\ match_pattern = x \o star =>
                        (matched <=> IsPrefixOf(x, match_name))
            /\ match_pattern = <<"*", "-", "cluster">> =>
                  /\ match_name = <<"foo", "-", "cluster">> => matched
                  /\ match_name = <<"minecraft", "-", "cdk", "-", "cluster">> => matched
                  /\ match_name = <<"cluster", "-", "foo">> => ~matched

\* "*-cluster" was matched against "minecraft-cdk-cluster"
C18_Witness ==
    /\ match_pattern = <<"*", "-", "cluster">>
    /\ match_name = <<"minecraft", "-", "cdk", "-", "cluster">>
    /\ match_result = "True"

\* the patterns of the naming search of an ECS kind, by priority
SearchPatterns(kind) ==
    IF kind = "Cluster" THEN ClusterSearchPatterns ELSE ServiceSearchPatterns

\* the places of the listing whose candidate matches the j-th pattern
MatchingPlaces(kind, j) ==
    {i \in 1..Len(api[kind].names) :
        MatchesPattern(api[kind].names[i], SearchPatterns(kind)[j])}

\* the patterns that match some candidate
MatchedPatterns(kind) ==
    {j \in 1..Len(SearchPatterns(kind)) : MatchingPlaces(kind, j) # {}}

\* the first candidate matching the first pattern that matches any
PatternMajorResult(kind) ==
    IF MatchedPatterns(kind) = {} THEN PyNone
    ELSE api[kind].names[Least(MatchingPlaces(kind, Least(MatchedPatterns(kind))))]

NamingSearchRan(kind) == \E i \in 1..Len(calls[kind]) : calls[kind][i].site = "naming"

\* C19: the naming search of clusters and of services, when its listing
\* calls succeed, returns the first listed candidate that matches the
\* highest-priority pattern matching any candidate (and nothing only if no
\* pattern matches any candidate).
C19_NamingSearchIsPatternMajor ==
    \A kind \in {"Cluster", "Service"} :
        NamingSearchRan(kind) /\ api[kind].namingFailAt = 0 =>
            NamingSearchResult(kind) = PatternMajorResult(kind)

\* C20: the tag search of clusters and of services never returns a
\* candidate whose tag fetch failed.
C20_FailedTagFetchIsNoMatch ==
    \A kind \in {"Cluster", "Service"} :
        TagSearchRan(kind) =>
            \A i \in 1..Len(TagSearchResult(kind)) :
                api[kind].resp[TagSearchResult(kind)[i]].ok

\* the tag search of the kind fetched the tags of the candidate
TagsFetched(kind, n) ==
    \E i \in 1..Len(calls[kind]) :
        /\ calls[kind][i].site = "tags"
        /\ calls[kind][i].op \in {"describe-clusters", "describe-services"}
        /\ calls[kind][i].args[Len(calls[kind][i].args)] = n

\* C21: a tag fetch that fails for one candidate does not end the tag
\* search of clusters or of services: the tags of every listed candidate
\* are fetched, and every candidate with matching tags is returned,
\* whatever failed before it.
C21_TagFetchFailureDoesNotAbort ==
    \A kind \in {"Cluster", "Service"} :
        TagSearchRan(kind) /\ api[kind].listOk =>
            /\ \A n \in ToSet(api[kind].names) : TagsFetched(kind, n)
            /\ \A i \in TaggedPlaces(kind) :
                  api[kind].names[i] \in ToSet(TagSearchResult(kind))

\* the first cluster's tag fetch fails, the second one has matching tags
\* and is resolved
C21_Witness ==
    /\ via.Cluster = "tags"
    /\ Len(api.Cluster.names) = 2
    /\ ~api.Cluster.resp[api.Cluster.names[1]].ok
    /\ CandidateTagged("Cluster", api.Cluster.names[2])
    /\ TagsFetched("Cluster", api.Cluster.names[2])
    /\ cluster_name = api.Cluster.names[2]

\* the listing call of the kind's tag search exits non-zero
TagListingFails(kind) ==
    IF kind \in {"Cluster", "Service"} THEN ~api[kind].listOk ELSE ~api[kind].tagsOk

\* the calls the kind's lookup issued from one of its strategies
CallsOf(kind, site) ==
    SelectSeq(calls[kind], LAMBDA c : c.site = site)

\* C22: a listing call that fails exhausts its strategy and is not issued
\* again, and the lookup goes on with the next strategy.  After a failed
\* listing of the tag search (one call) the override decides if it is
\* set, else the naming search if the mode runs it and it finds a name;
\* after a failed listing of the naming search (its last call) the result
\* is the kind's last resort: the first listed service, the error of a
\* required kind, the sentinel of an optional one.
C22_ListingFailureExhaustsOneStrategy ==
    \A kind \in CascadedKinds :
        /\ TagSearchRan(kind) /\ TagListingFails(kind) =>
              /\ Len(CallsOf(kind, "tags")) = 1
              /\ via[kind] # "tags"
              /\ OverrideSet(kind) =>
                    via[kind] = "env" /\ Resolved(kind) = Override(kind)
              /\ /\ ~OverrideSet(kind)
                 /\ NamingEnabled(detection_mode)
                 /\ NamingSearchResult(kind) # PyNone
                 => via[kind] = "naming" /\ Resolved(kind) = NamingSearchResult(kind)
        /\ /\ NamingSearchRan(kind)
           /\ api[kind].namingFailAt >= 1
           /\ Len(CallsOf(kind, "naming")) >= api[kind].namingFailAt
           => /\ Len(CallsOf(kind, "naming")) = api[kind].namingFailAt
              /\ via[kind] \in {"fallback", "raise", "sentinel"}
              /\ kind = "Cluster" => Raised(kind)
              /\ kind \in OptionalKinds => via[kind] = "sentinel"

\* list-clusters of the tag search fails and the naming search resolves
\* the cluster
C22_Witness ==
    /\ detection_mode = "auto"
    /\ ~api.Cluster.listOk
    /\ ~OverrideSet("Cluster")
    /\ Len(CallsOf("Cluster", "tags")) = 1
    /\ via.Cluster = "naming"
    /\ cluster_name = <<"mc", "-", "cluster", "-", "1">>

\* C23: without a CONTAINER_NAME override, container resolution returns
\* the name of the first container of the task, and raises when
\* describe-tasks fails or the task has no container.
C23_ContainerIsFirstOrRaises ==
    Done("Container") /\ ~OverrideSet("Container") =>
        IF api.Container.ok /\ api.Container.containers # <<>>
        THEN ~Raised("Container") /\ container_name = api.Container.containers[1]
        ELSE Raised("Container") /\ pc = "failed"

\* tag search, override and naming search (those the mode runs) all yield
\* nothing for the kind
CascadeExhausted(kind) ==
    /\ TagsEnabled(detection_mode) => TagSearchResult(kind) = <<>>
    /\ ~OverrideSet(kind)
    /\ NamingEnabled(detection_mode) => NamingSearchResult(kind) = PyNone

\* C24: when tags, override and naming yield nothing for Service, the
\* service is the first one of a listing of the resolved cluster, and the
\* lookup raises only if that listing fails or is empty (a service lookup
\* raises in no other case); Cluster has no such last resort and raises
\* as soon as tags, override and naming yield nothing.
C24_ServiceHasLastResort ==
    /\ Done("Service") /\ CascadeExhausted("Service") =>
          /\ calls.Service # <<>>
          /\ calls.Service[Len(calls.Service)] =
                Call("fallback", "list-services", <<cluster_name>>)
          /\ IF api.Service.fallbackOk /\ api.Service.names # <<>>
             THEN via.Service = "fallback" /\ service_name = api.Service.names[1]
             ELSE Raised("Service")
    /\ Raised("Service") =>
          /\ CascadeExhausted("Service")
          /\ ~api.Service.fallbackOk \/ api.Service.names = <<>>
    /\ Done("Cluster") => (Raised("Cluster") <=> CascadeExhausted("Cluster"))

\* nothing selects the listed service, and it is resolved all the same
C24_Witness ==
    /\ via.Service = "fallback"
    /\ detection_mode = "auto"
    /\ CascadeExhausted("Service")
    /\ service_name = <<"web">>

\* C25: in every detection mode the task is the first one of the listing
\* of the tasks of the resolved cluster and service, the one call the
\* lookup issues; the lookup raises when the listing fails or is empty;
\* TASK_ARN has no part in it.
C25_TaskHasOneStrategy ==
    Done("Task") =>
        /\ calls.Task = <<Call("task", "list-tasks", <<cluster_name, service_name>>)>>
        /\ IF api.Task.ok /\ api.Task.taskArns # <<>>
           THEN via.Task = "list" /\ task_arn = api.Task.taskArns[1]
           ELSE Raised("Task") /\ task_arn = PyNone

\* env mode with TASK_ARN set: the task is the listed one
C25_Witness ==
    /\ Done("Task")
    /\ detection_mode = "env"
    /\ OverrideSet("Task")
    /\ Len(api.Task.taskArns) = 2
    /\ task_arn = api.Task.taskArns[1]
    /\ task_arn # Override("Task")

\* the most calls a lookup can issue: one listing and one tag fetch per
\* candidate, one listing per naming pattern, one listing as last resort
CallBound(kind) ==
    CASE kind = "Cluster" ->
           1 + Len(api.Cluster.names) + Len(ClusterSearchPatterns)
      [] kind = "Service" ->
           1 + Len(api.Service.names) + Len(ServiceSearchPatterns) + 1
      [] kind \in {"Task", "Container"} -> 1
      [] kind = "Instance" -> 1 + Len(InstanceNamingPatterns)
      [] kind = "LoadBalancer" -> 1 + Len(NlbNamingPatterns)

\* detect_all_resources has returned a configuration or raised
Terminated ==
    \/ pc = "complete" /\ config # <<>>
    \/ pc = "failed" /\ error # PyNone

\* C26: provided every AWS CLI call exits, every run of
\* detect_all_resources ends, Complete with a configuration or Failed with
\* an error, and no lookup issues more calls than its candidates and
\* patterns allow.
C26_DetectionTerminates ==
    /\ <>Terminated
    /\ [](\A kind \in Kinds : Len(calls[kind]) <= CallBound(kind))

\* a failed run whose cluster naming search tried every pattern
C26_Witness ==
    /\ pc = "failed"
    /\ Raised("Cluster")
    /\ Len(CallsOf("Cluster", "naming")) = Len(ClusterSearchPatterns)
    /\ Len(calls.Cluster) > 1

\* the patterns of the naming search without a wildcard
LiteralPatterns(kind) ==
    {q \in ToSet(SearchPatterns(kind)) : ~OccursIn(<<"*">>, q)}

\* the name is one the most generic wildcard of the kind stands for:
\* *-cluster for clusters, *Service* for services
FitsGenericPattern(kind, n) ==
    IF kind = "Cluster" THEN IsSuffixOf(<<"-", "cluster">>, n)
    ELSE OccursIn(<<"Service">>, n)

\* C27: when the naming search of clusters or of services runs, its
\* listing calls succeed and no literal pattern occurs in any listed
\* candidate, a listed candidate that the generic wildcard stands for
\* (a cluster ending with "-cluster", a service containing "Service") makes
\* the search return such a candidate.
C27_WildcardsAreEffective ==
    \A kind \in {"Cluster", "Service"} :
        /\ NamingSearchRan(kind)
        /\ api[kind].namingFailAt = 0
        /\ \A n \in ToSet(api[kind].names) :
              \A q \in LiteralPatterns(kind) : ~OccursIn(q, n)
        /\ \E n \in ToSet(api[kind].names) : FitsGenericPattern(kind, n)
        => /\ NamingSearchResult(kind) \in ToSet(api[kind].names)
           /\ FitsGenericPattern(kind, NamingSearchResult(kind))

\* the places of the load balancers carrying both common tags
TaggedLbPlaces ==
    {i \in 1..Len(api.LoadBalancer.lbs) :
        BothTagsMatch(api.LoadBalancer.lbs[i].tags)}

\* C28: when the tag search of load balancers runs, its call succeeds and
\* some listed load balancer carries both common tags, the resolved
\* load-balancer identifier is the whole DNS name of the first such load
\* balancer.
C28_TaggedNlbResolvesToItsDnsName ==
    /\ Done("LoadBalancer")
    /\ TagSearchRan("LoadBalancer")
    /\ api.LoadBalancer.tagsOk
    /\ TaggedLbPlaces # {}
    => nlb_dns_name = api.LoadBalancer.lbs[Least(TaggedLbPlaces)].dns

\* the places <<reservation, instance>> of the running instances whose
\* Name tag contains the j-th pattern
NamedInstancePlaces(j) ==
    {q \in UNION {{<<r, i>> : i \in 1..Len(api.Instance.reservations[r])} :
                    r \in 1..Len(api.Instance.reservations)} :
        \E t \in api.Instance.reservations[q[1]][q[2]].tags :
            t.key = "Name" /\ OccursIn(InstanceNamingPatterns[j], t.value)}

\* the first place in listing order: reservations in order, then instances
FirstPlace(S) ==
    CHOOSE q \in S : \A o \in S : q[1] < o[1] \/ (q[1] = o[1] /\ q[2] <= o[2])

NamedInstancePatterns ==
    {j \in 1..Len(InstanceNamingPatterns) : NamedInstancePlaces(j) # {}}

\* the first instance, over all reservations, matching the first pattern
\* that matches any instance
FirstNamedInstance ==
    IF NamedInstancePatterns = {} THEN PyNone
    ELSE LET q == FirstPlace(NamedInstancePlaces(Least(NamedInstancePatterns)))
         IN  api.Instance.reservations[q[1]][q[2]].id

\* C29: the naming search of instances, when its calls succeed, returns
\* the first instance in listing order over all reservations whose Name tag
\* contains the highest-priority pattern contained in any Name tag; a match
\* in a later reservation is found when the earlier ones hold none.
C29_InstanceNamingSearchSpansReservations ==
    NamingSearchRan("Instance") /\ api.Instance.namingFailAt = 0 =>
        NamingSearchResult("Instance") = FirstNamedInstance

\* what the run of detect_all_resources left for the four fields a command
\* needs: its results when it returned, the overrides when it raised
StartUpSnapshot ==
    IF pc = "complete"
    THEN [CLUSTER_NAME |-> cluster_name, SERVICE_NAME |-> service_name,
          CONTAINER_NAME |-> container_name, TASK_ARN |-> task_arn]
    ELSE [k \in {"CLUSTER_NAME", "SERVICE_NAME", "CONTAINER_NAME", "TASK_ARN"} |->
             env[k]]

\* C30: the server resolves its resources once: after it holds a snapshot
\* no lookup runs again and the snapshot stays as it is; every rcon command
\* is run with the cluster, service, container and task of the start-up
\* snapshot; and every rcon command returns a text, never an exception,
\* also when detection raised and the fallback snapshot has unset fields.
C30_ResolvedOnceAndEveryCommandReplies ==
    [][ /\ resources # <<>> =>
              /\ resources' = resources
              /\ calls' = calls /\ via' = via /\ pc' = pc
        /\ commands' # commands =>
              /\ resources # <<>>
              /\ exec_env' = <<StartUpSnapshot>>
              /\ reply' # PyNone ]_vars

\* detection raised, the fallback snapshot has no task, and a command was
\* answered with the text of the error
C30_Witness ==
    /\ pc = "failed"
    /\ resources # <<>>
    /\ resources[1].task_arn = PyNone
    /\ commands > 0
    /\ reply = <<"Unexpected error: ">>

====
